---- MODULE Spec2Model ----
(***************************************************************************)
(* check_versions.py: the dependency audit.  main() fetches the support    *)
(* dataset, extracts the declared dependencies of frontend/package.json    *)
(* (check_npm_versions) and backend/pom.xml (check_maven_versions),        *)
(* classifies every record into end-of-life / up-to-date / unchecked and   *)
(* prints the six tables.                                                  *)
(*                                                                         *)
(* Python str values are TLA+ strings (TLC evaluates Len, SubSeq and \o on *)
(* them); dicts are functions; lists are sequences.                        *)
(***************************************************************************)
EXTENDS Integers, Sequences, FiniteSets, TLC

VARIABLES
    eol_data,             \* the fetched dataset: product key -> entry
    pkg,                  \* package.json "dependencies": sequence of <<name, version>>
    pom,                  \* pom.xml: [properties, parent, dependencies]
    pc,                   \* position in main()
    i,                    \* index of the loop of the running extractor
    frontend_report,      \* check_npm_versions' result
    backend_report,       \* check_maven_versions' result
    frontend_eol, frontend_unchecked, frontend_up_to_date,
    backend_eol, backend_unchecked, backend_up_to_date,
    err                   \* the uncaught exception that ended the run, or NoError

vars == <<eol_data, pkg, pom, pc, i, frontend_report, backend_report,
          frontend_eol, frontend_unchecked, frontend_up_to_date,
          backend_eol, backend_unchecked, backend_up_to_date, err>>

(***************************************************************************)
(* Values that are not str.                                                *)
(***************************************************************************)
\* Python's None (an element with no text, next()'s default): differs from every str of the pools
None == "<None>"
\* Element.find() found no such child element
Missing == "<no element>"
NoError == "none"

(***************************************************************************)
(* str methods                                                             *)
(***************************************************************************)
IsSpace(c) == c \in {" ", "\n", "\t"}

RECURSIVE lstrip(_)
lstrip(s) == IF Len(s) > 0 /\ IsSpace(SubSeq(s, 1, 1)) THEN lstrip(SubSeq(s, 2, Len(s))) ELSE s

RECURSIVE rstrip(_)
rstrip(s) == IF Len(s) > 0 /\ IsSpace(SubSeq(s, Len(s), Len(s))) THEN rstrip(SubSeq(s, 1, Len(s) - 1)) ELSE s

strip(s) == rstrip(lstrip(s))

startswith(s, p) == Len(s) >= Len(p) /\ SubSeq(s, 1, Len(p)) = p

endswith(s, p) == Len(s) >= Len(p) /\ SubSeq(s, Len(s) - Len(p) + 1, Len(s)) = p

\* str.lower() on the names of the pools (ASCII letters)
LowerChar(c) ==
    CASE c = "B" -> "b" [] c = "C" -> "c" [] c = "J" -> "j" [] c = "L" -> "l"
      [] c = "O" -> "o" [] c = "P" -> "p" [] c = "S" -> "s" [] c = "A" -> "a"
      [] c = "V" -> "v" [] OTHER -> c

RECURSIVE lower(_)
lower(s) == IF Len(s) = 0 THEN s ELSE LowerChar(SubSeq(s, 1, 1)) \o lower(SubSeq(s, 2, Len(s)))

(***************************************************************************)
(* packaging.version.parse and the comparison of two Versions.  The        *)
(* pattern is anchored and allows surrounding whitespace and a leading v;  *)
(* the strings of the pools hold no epoch, pre, post, dev or local         *)
(* segment, so for them the release segment N(.N)* is the whole pattern.   *)
(***************************************************************************)
IsDigit(c) == c \in {"0", "1", "2", "3", "4", "5", "6", "7", "8", "9"}

DigitVal(c) ==
    CASE c = "0" -> 0 [] c = "1" -> 1 [] c = "2" -> 2 [] c = "3" -> 3 [] c = "4" -> 4
      [] c = "5" -> 5 [] c = "6" -> 6 [] c = "7" -> 7 [] c = "8" -> 8 [] c = "9" -> 9

\* the release segment of s read left to right: acc holds the finished numbers,
\* cur the number being read (-1: no digit of it read yet); <<-1>> is no match
RECURSIVE ReadRelease(_, _, _)
ReadRelease(s, acc, cur) ==
    IF Len(s) = 0 THEN (IF cur < 0 THEN <<-1>> ELSE Append(acc, cur))
    ELSE LET c == SubSeq(s, 1, 1)
             rest == SubSeq(s, 2, Len(s))
         IN  IF IsDigit(c) THEN ReadRelease(rest, acc, (IF cur < 0 THEN 0 ELSE cur * 10) + DigitVal(c))
             ELSE IF c = "." /\ cur >= 0 THEN ReadRelease(rest, Append(acc, cur), -1)
             ELSE <<-1>>

Unprefixed(s) == IF startswith(s, "v") \/ startswith(s, "V") THEN SubSeq(s, 2, Len(s)) ELSE s

\* Version(s).release, or <<-1>> where Version(s) raises
Release(s) == IF s = None THEN <<-1>> ELSE ReadRelease(Unprefixed(strip(s)), <<>>, -1)

\* version.parse(s) returns: None raises TypeError, any other mismatch InvalidVersion (a ValueError)
Parses(s) == Release(s) # <<-1>>

\* _cmpkey: the release without its trailing zeros
RECURSIVE CmpKey(_)
CmpKey(r) == IF Len(r) > 0 /\ r[Len(r)] = 0 THEN CmpKey(SubSeq(r, 1, Len(r) - 1)) ELSE r

\* tuple comparison
RECURSIVE TupleLess(_, _)
TupleLess(a, b) ==
    IF Len(b) = 0 THEN FALSE
    ELSE IF Len(a) = 0 THEN TRUE
    ELSE IF Head(a) # Head(b) THEN Head(a) < Head(b)
    ELSE TupleLess(Tail(a), Tail(b))

\* version.parse(a) < version.parse(b), both parsing
VersionLess(a, b) == TupleLess(CmpKey(Release(a)), CmpKey(Release(b)))

\* version.parse(a) <= version.parse(b), both parsing
VersionLeq(a, b) == ~VersionLess(b, a)


(***************************************************************************)
(* dict and list helpers                                                   *)
(***************************************************************************)
EmptyDict == <<>>

\* d.setdefault(k, v): the first record of a name is kept
DictSetKeepFirst(d, k, v) == [x \in (DOMAIN d) \cup {k} |-> IF x \in DOMAIN d THEN d[x] ELSE v]

\* d[k] = v
DictSet(d, k, v) == [x \in (DOMAIN d) \cup {k} |-> IF x = k THEN v ELSE d[x]]

\* x in L, for a list L
InList(x, L) == \E n \in 1..Len(L) : L[n] = x

(***************************************************************************)
(* spring_boot_mappings.py: dicts, iterated in insertion order             *)
(***************************************************************************)
spring_boot_to_framework ==
    << <<"3.0", "6.0">>, <<"3.1", "6.0">>, <<"3.2", "6.1">>,
       <<"3.3", "6.1">>, <<"3.4", "6.2">>, <<"3.5", "6.3">> >>

spring_boot_to_liquibase ==
    << <<"3.0", "4.17.0">>, <<"3.1", "4.20.0">>, <<"3.2", "4.23.0">>,
       <<"3.3", "4.24.0">>, <<"3.4", "4.26.0">>, <<"3.5", "4.28.0">> >>

\* for key, value in table.items(): if parent_ver.startswith(key): found = value; break
RECURSIVE FirstPrefixMatch(_, _)
FirstPrefixMatch(table, parent_ver) ==
    IF Len(table) = 0 THEN None
    ELSE IF startswith(parent_ver, Head(table)[1]) THEN Head(table)[2]
    ELSE FirstPrefixMatch(Tail(table), parent_ver)

(***************************************************************************)
(* The dataset                                                             *)
(***************************************************************************)
NotChecked == "Not checked - dependency not found in endoflife.json"

\* name in eol_data and "result" in eol_data[name] and "releases" in eol_data[name]["result"]
HasReleases(name) ==
    /\ name \in DOMAIN eol_data
    /\ "result" \in DOMAIN eol_data[name]
    /\ "releases" \in DOMAIN eol_data[name].result

ReleasesOf(name) == eol_data[name].result.releases

\* v.get("isEol", True)
IsEol(v) == IF "isEol" \in DOMAIN v THEN v.isEol ELSE TRUE

\* [v["name"] for v in releases if not v.get("isEol", True)]
RECURSIVE SupportedNames(_)
SupportedNames(releases) ==
    IF Len(releases) = 0 THEN <<>>
    ELSE IF ~IsEol(Head(releases)) THEN <<Head(releases).name>> \o SupportedNames(Tail(releases))
    ELSE SupportedNames(Tail(releases))

\* next((v["name"] for v in releases if not v.get("isEol", True)), None)
LatestSupported(releases) ==
    IF SupportedNames(releases) = <<>> THEN None ELSE Head(SupportedNames(releases))

UncheckedInfo(ver) == [used |-> ver, status |-> NotChecked]

ListInfo(ver, name) == [used |-> ver, supported_versions |-> SupportedNames(ReleasesOf(name))]

(***************************************************************************)
(* check_npm_versions                                                      *)
(***************************************************************************)
NpmInfo(dep, ver) ==
    IF HasReleases(dep)
    THEN [used |-> ver, latest_supported |-> LatestSupported(ReleasesOf(dep))]
    ELSE UncheckedInfo(ver)

\* one iteration of the loop over deps.items()
NpmDep ==
    /\ pc = "npm" /\ i <= Len(pkg)
    /\ frontend_report' = DictSet(frontend_report, pkg[i][1], NpmInfo(pkg[i][1], pkg[i][2]))
    /\ i' = i + 1
    /\ UNCHANGED <<eol_data, pkg, pom, pc, backend_report, frontend_eol, frontend_unchecked,
                   frontend_up_to_date, backend_eol, backend_unchecked, backend_up_to_date, err>>

\* return result; main goes on to check_maven_versions
NpmReturn ==
    /\ pc = "npm" /\ i > Len(pkg)
    /\ pc' = "maven_parent" /\ i' = 1
    /\ UNCHANGED <<eol_data, pkg, pom, frontend_report, backend_report, frontend_eol,
                   frontend_unchecked, frontend_up_to_date, backend_eol, backend_unchecked,
                   backend_up_to_date, err>>

(***************************************************************************)
(* check_maven_versions.  A step yields [result, err]: the result dict     *)
(* after it and the exception it raised, if any.                           *)
(***************************************************************************)
properties == pom.properties

Ok(result) == [result |-> result, err |-> NoError]

Raised(result, e) == [result |-> result, err |-> e]

StarterParent == "spring-boot-starter-parent"

\* the property consulted before the mapping table
FrameworkVersionPropertyFirst(parent_ver) ==
    LET mapped == FirstPrefixMatch(spring_boot_to_framework, parent_ver)
    IN  IF "spring-oxm.version" \in DOMAIN properties THEN strip(properties["spring-oxm.version"])
        ELSE IF mapped # None THEN mapped
        ELSE "6.2.5"

\* mapping table, then property spring-oxm.version, then the default
FrameworkVersion(parent_ver) ==
    LET mapped == FirstPrefixMatch(spring_boot_to_framework, parent_ver)
    IN  IF mapped # None THEN mapped
        ELSE IF "spring-oxm.version" \in DOMAIN properties THEN strip(properties["spring-oxm.version"])
        ELSE "6.2.5"

\* the spring-framework record written with a spring-boot parent
FrameworkStep(result, parent_ver) ==
    IF ~HasReleases("spring-framework") THEN Ok(result)
    \* parent_ver.startswith on None
    ELSE IF parent_ver = None THEN Raised(result, "AttributeError")
    \* properties["spring-oxm.version"].strip() on None
    ELSE IF /\ FirstPrefixMatch(spring_boot_to_framework, parent_ver) = None
            /\ "spring-oxm.version" \in DOMAIN properties
            /\ properties["spring-oxm.version"] = None
         THEN Raised(result, "AttributeError")
    ELSE Ok(DictSet(result, "spring-framework", ListInfo(FrameworkVersion(parent_ver), "spring-framework")))

ParentStep(result) ==
    LET parent == pom.parent
    IN  IF ~parent.present THEN Ok(result)
        ELSE IF parent.groupId = Missing \/ parent.artifactId = Missing \/ parent.version = Missing
             THEN Ok(result)
        \* parent_artifact.text.lower(), parent_group.text.lower() on None
        ELSE IF parent.artifactId = None \/ parent.groupId = None THEN Raised(result, "AttributeError")
        ELSE LET parent_name == lower(parent.artifactId)
                 parent_ver == parent.version
             IN  IF parent_name = StarterParent /\ HasReleases("spring-boot")
                 THEN FrameworkStep(DictSet(result, parent_name, ListInfo(parent_ver, "spring-boot")),
                                    parent_ver)
                 ELSE Ok(DictSet(result, parent_name, UncheckedInfo(parent_ver)))

JavaStep(result) ==
    IF "java.version" \in DOMAIN properties /\ HasReleases("java")
    THEN DictSet(result, "java", ListInfo(properties["java.version"], "java"))
    ELSE result

\* ver.strip() ends with "}" and ver starts with "${"
IsPlaceholder(ver) == ver # None /\ ver # "" /\ startswith(ver, "${") /\ endswith(strip(ver), "}")

\* prop_ref[2:-1]
PropName(ver) == SubSeq(strip(ver), 3, Len(strip(ver)) - 1)

\* the property's value taken as it stands
ResolveVersionUntrimmed(ver) ==
    IF IsPlaceholder(ver) /\ PropName(ver) \in DOMAIN properties
    THEN properties[PropName(ver)]
    ELSE ver

\* the version recorded for an explicit <version> text
ResolveVersion(ver) ==
    IF IsPlaceholder(ver) /\ PropName(ver) \in DOMAIN properties
    THEN strip(properties[PropName(ver)])
    ELSE ver

ExplicitStep(result, name, ver) ==
    \* properties[prop_name].strip() on None
    IF IsPlaceholder(ver) /\ PropName(ver) \in DOMAIN properties /\ properties[PropName(ver)] = None
    THEN Raised(result, "AttributeError")
    ELSE IF HasReleases(name) THEN Ok(DictSet(result, name, ListInfo(ResolveVersion(ver), name)))
    ELSE Ok(DictSet(result, name, UncheckedInfo(ResolveVersion(ver))))

\* the parent's version read only under a spring-boot-starter-parent
ParentVersionOfStarter ==
    IF /\ pom.parent.present /\ pom.parent.version # Missing
       /\ pom.parent.artifactId \notin {Missing, None}
       /\ lower(pom.parent.artifactId) = StarterParent
    THEN pom.parent.version
    ELSE None

\* root.find(".//m:parent/m:version").text, or None
ParentVersionText ==
    IF pom.parent.present /\ pom.parent.version # Missing THEN pom.parent.version ELSE None

LiquibaseVersion(parent_ver) ==
    LET mapped == IF parent_ver # None /\ parent_ver # ""
                  THEN FirstPrefixMatch(spring_boot_to_liquibase, parent_ver)
                  ELSE None
    IN  IF mapped = None THEN "4.26.0" ELSE mapped

ManagedStep(result, name, group_name) ==
    IF name = "liquibase-core" /\ group_name = "org.liquibase" /\ HasReleases("liquibase")
    THEN DictSet(result, "liquibase", ListInfo(LiquibaseVersion(ParentVersionText), "liquibase"))
    ELSE result

\* one iteration of the loop over the <dependency> nodes
DepStep(result, dep) ==
    IF dep.artifactId = Missing THEN Ok(result)
    \* artifact.text.lower(), group_id.text.lower() on None
    ELSE IF dep.artifactId = None \/ dep.groupId = None THEN Raised(result, "AttributeError")
    ELSE LET name == lower(dep.artifactId)
             group_name == IF dep.groupId # Missing THEN lower(dep.groupId) ELSE ""
         IN  IF dep.version # Missing THEN ExplicitStep(result, name, dep.version)
             ELSE Ok(ManagedStep(result, name, group_name))

\* where the run goes after an extractor step
Goes(step, next) == IF step.err = NoError THEN next ELSE "crashed_in_check_maven_versions"

MavenParent ==
    /\ pc = "maven_parent"
    /\ backend_report' = ParentStep(EmptyDict).result
    /\ err' = ParentStep(EmptyDict).err
    /\ pc' = Goes(ParentStep(EmptyDict), "maven_java")
    /\ UNCHANGED <<eol_data, pkg, pom, i, frontend_report, frontend_eol, frontend_unchecked,
                   frontend_up_to_date, backend_eol, backend_unchecked, backend_up_to_date>>

MavenJava ==
    /\ pc = "maven_java"
    /\ backend_report' = JavaStep(backend_report)
    /\ pc' = "maven_deps" /\ i' = 1
    /\ UNCHANGED <<eol_data, pkg, pom, frontend_report, frontend_eol, frontend_unchecked,
                   frontend_up_to_date, backend_eol, backend_unchecked, backend_up_to_date, err>>

MavenDep ==
    /\ pc = "maven_deps" /\ i <= Len(pom.dependencies)
    /\ LET step == DepStep(backend_report, pom.dependencies[i])
       IN  /\ backend_report' = step.result
           /\ err' = step.err
           /\ pc' = Goes(step, "maven_deps")
    /\ i' = i + 1
    /\ UNCHANGED <<eol_data, pkg, pom, frontend_report, frontend_eol, frontend_unchecked,
                   frontend_up_to_date, backend_eol, backend_unchecked, backend_up_to_date>>

\* return result; main goes on to classify
MavenReturn ==
    /\ pc = "maven_deps" /\ i > Len(pom.dependencies)
    /\ pc' = "classify_frontend"
    /\ UNCHANGED <<eol_data, pkg, pom, i, frontend_report, backend_report, frontend_eol,
                   frontend_unchecked, frontend_up_to_date, backend_eol, backend_unchecked,
                   backend_up_to_date, err>>

(***************************************************************************)
(* main: the classification of the two reports                            *)
(***************************************************************************)
\* if used_version.startswith(("^", "~", ">")): used_version = used_version[1:]
StripMarker(used) ==
    IF startswith(used, "^") \/ startswith(used, "~") \/ startswith(used, ">")
    THEN SubSeq(used, 2, Len(used))
    ELSE used

\* <= in place of <
FrontendBucketLeq(info) ==
    IF "status" \in DOMAIN info THEN "unchecked"
    ELSE IF Parses(StripMarker(info.used)) /\ Parses(info.latest_supported)
         THEN (IF VersionLeq(StripMarker(info.used), info.latest_supported) THEN "eol" ELSE "up_to_date")
         ELSE (IF info.used # info.latest_supported THEN "eol" ELSE "up_to_date")

\* the bucket of one record of frontend_report
FrontendBucket(info) ==
    IF "status" \in DOMAIN info THEN "unchecked"
    ELSE IF Parses(StripMarker(info.used)) /\ Parses(info.latest_supported)
         THEN (IF VersionLess(StripMarker(info.used), info.latest_supported) THEN "eol" ELSE "up_to_date")
         \* except (TypeError, ValueError)
         ELSE (IF info.used # info.latest_supported THEN "eol" ELSE "up_to_date")

\* < in place of <=
RECURSIVE AnyLeqStrict(_, _)
AnyLeqStrict(supported, used) ==
    IF Len(supported) = 0 THEN "false"
    ELSE IF ~Parses(Head(supported)) THEN "raise"
    ELSE IF VersionLess(Head(supported), used) THEN "true"
    ELSE AnyLeqStrict(Tail(supported), used)

\* an entry that does not parse is skipped
RECURSIVE AnyLeqSkipping(_, _)
AnyLeqSkipping(supported, used) ==
    IF Len(supported) = 0 THEN "false"
    ELSE IF ~Parses(Head(supported)) THEN AnyLeqSkipping(Tail(supported), used)
    ELSE IF VersionLeq(Head(supported), used) THEN "true"
    ELSE AnyLeqSkipping(Tail(supported), used)

\* any(version.parse(v) <= used_ver for v in supported): the generator stops at the
\* first True, and an entry is parsed only when the scan reaches it
RECURSIVE AnyLeq(_, _)
AnyLeq(supported, used) ==
    IF Len(supported) = 0 THEN "false"
    ELSE IF ~Parses(Head(supported)) THEN "raise"
    ELSE IF VersionLeq(Head(supported), used) THEN "true"
    ELSE AnyLeq(Tail(supported), used)

\* an empty supported list reported as unchecked
BackendBucketEmptyUnchecked(info) ==
    IF "status" \in DOMAIN info \/ info.supported_versions = <<>> THEN "unchecked"
    ELSE IF Parses(info.used) /\ AnyLeq(info.supported_versions, info.used) # "raise"
         THEN (IF AnyLeq(info.supported_versions, info.used) = "true" THEN "up_to_date" ELSE "eol")
         ELSE (IF ~InList(info.used, info.supported_versions) THEN "eol" ELSE "up_to_date")

\* the bucket of one record of backend_report
BackendBucket(info) ==
    IF "status" \in DOMAIN info THEN "unchecked"
    ELSE IF info.supported_versions = <<>> THEN "none"
    ELSE IF Parses(info.used) /\ AnyLeq(info.supported_versions, info.used) # "raise"
         THEN (IF AnyLeq(info.supported_versions, info.used) = "true" THEN "up_to_date" ELSE "eol")
         \* except (TypeError, ValueError)
         ELSE (IF ~InList(info.used, info.supported_versions) THEN "eol" ELSE "up_to_date")

\* the names of frontend_report the loop puts in a bucket
FrontendNames(bucket) == {dep \in DOMAIN frontend_report : FrontendBucket(frontend_report[dep]) = bucket}

\* the names of backend_report the loop puts in a bucket
BackendNames(bucket) == {dep \in DOMAIN backend_report : BackendBucket(backend_report[dep]) = bucket}

ClassifyFrontend ==
    /\ pc = "classify_frontend"
    /\ frontend_unchecked' = [dep \in FrontendNames("unchecked") |-> frontend_report[dep]]
    /\ frontend_eol' = [dep \in FrontendNames("eol") |->
                            [used |-> frontend_report[dep].used,
                             required |-> frontend_report[dep].latest_supported]]
    /\ frontend_up_to_date' = [dep \in FrontendNames("up_to_date") |->
                                   [used |-> frontend_report[dep].used]]
    /\ pc' = "classify_backend"
    /\ UNCHANGED <<eol_data, pkg, pom, i, frontend_report, backend_report,
                   backend_eol, backend_unchecked, backend_up_to_date, err>>

ClassifyBackend ==
    /\ pc = "classify_backend"
    /\ backend_unchecked' = [dep \in BackendNames("unchecked") |-> backend_report[dep]]
    /\ backend_eol' = [dep \in BackendNames("eol") |->
                           [used |-> backend_report[dep].used,
                            required |-> backend_report[dep].supported_versions[1]]]
    /\ backend_up_to_date' = [dep \in BackendNames("up_to_date") |->
                                  [used |-> backend_report[dep].used]]
    /\ pc' = "print_frontend"
    /\ UNCHANGED <<eol_data, pkg, pom, i, frontend_report, backend_report,
                   frontend_eol, frontend_unchecked, frontend_up_to_date, err>>

(***************************************************************************)
(* main: the report.  f"{value:<20}" raises TypeError on None.             *)
(***************************************************************************)
FormatRaises(table) ==
    \E dep \in DOMAIN table :
        \/ table[dep].used = None
        \/ "required" \in DOMAIN table[dep] /\ table[dep].required = None

PrintRaises(eol, up_to_date, unchecked) ==
    FormatRaises(eol) \/ FormatRaises(up_to_date) \/ FormatRaises(unchecked)

PrintFrontend ==
    /\ pc = "print_frontend"
    /\ err' = IF PrintRaises(frontend_eol, frontend_up_to_date, frontend_unchecked) THEN "TypeError" ELSE NoError
    /\ pc' = IF PrintRaises(frontend_eol, frontend_up_to_date, frontend_unchecked) THEN "crashed_in_report" ELSE "print_backend"
    /\ UNCHANGED <<eol_data, pkg, pom, i, frontend_report, backend_report, frontend_eol,
                   frontend_unchecked, frontend_up_to_date, backend_eol, backend_unchecked,
                   backend_up_to_date>>

PrintBackend ==
    /\ pc = "print_backend"
    /\ err' = IF PrintRaises(backend_eol, backend_up_to_date, backend_unchecked) THEN "TypeError" ELSE NoError
    /\ pc' = IF PrintRaises(backend_eol, backend_up_to_date, backend_unchecked) THEN "crashed_in_report" ELSE "done"
    /\ UNCHANGED <<eol_data, pkg, pom, i, frontend_report, backend_report, frontend_eol,
                   frontend_unchecked, frontend_up_to_date, backend_eol, backend_unchecked,
                   backend_up_to_date>>

(***************************************************************************)
(* The inputs: the dataset and the two manifests                           *)
(***************************************************************************)
MaxReleases == 3
MaxDeps == 2
MaxPkg == 2

SeqsUpTo(S, n) == UNION {[1..m -> S] : m \in 0..n}

Absent == [absent |-> TRUE]
NoResult == [message |-> "Not Found"]
Entry(releases) == [result |-> [releases |-> releases]]
Rel(name, isEol) == [name |-> name, isEol |-> isEol]

\* the dataset holding the keys of choice that are not Absent
Dataset(choice) == [k \in {x \in DOMAIN choice : choice[x] # Absent} |-> choice[k]]

\* the properties holding the names of choice that are not Missing
Properties(choice) == [k \in {x \in DOMAIN choice : choice[x] # Missing} |-> choice[k]]

NoParent == [present |-> FALSE, groupId |-> Missing, artifactId |-> Missing, version |-> Missing]
Parent(g, a, v) == [present |-> TRUE, groupId |-> g, artifactId |-> a, version |-> v]
Dependency(g, a, v) == [groupId |-> g, artifactId |-> a, version |-> v]

EmptyPom == [properties |-> EmptyDict, parent |-> NoParent, dependencies |-> <<>>]

BackendKeys == {"spring-boot", "spring-framework", "java", "liquibase"}

SampleEntry(k) ==
    CASE k = "spring-boot" -> Entry(<<Rel("3.5", FALSE), Rel("3.4", FALSE), Rel("3.3", TRUE)>>)
      [] k = "spring-framework" -> Entry(<<Rel("6.2", FALSE), [name |-> "6.1"], Rel("6.0", TRUE)>>)
      [] k = "java" -> Entry(<<Rel("25", FALSE), Rel("21", FALSE), Rel("8", TRUE)>>)
      [] k = "liquibase" -> Entry(<<Rel("4.31", FALSE), Rel("4.23", FALSE)>>)

\* every dataset in which each backend product is absent or has its sample releases
BackendDatasets == {Dataset([k \in BackendKeys |-> IF k \in present THEN SampleEntry(k) ELSE Absent]) :
                        present \in SUBSET BackendKeys}

StartOfMain ==
    /\ pc = "npm" /\ i = 1 /\ err = NoError
    /\ frontend_report = EmptyDict /\ backend_report = EmptyDict
    /\ frontend_eol = EmptyDict /\ frontend_unchecked = EmptyDict /\ frontend_up_to_date = EmptyDict
    /\ backend_eol = EmptyDict /\ backend_unchecked = EmptyDict /\ backend_up_to_date = EmptyDict

\* ---- frontend runs: package.json varies, the pom is empty
NpmNames == {"react", "left-pad"}
NpmVersions == {"^2.0.0", "2.5.0", "~2.5", ">=2.0.0", "~>3.0.0", "^bad", "bad", ""}
NpmReleases == {Rel(n, e) : n \in {"2.5.0", "bad"}, e \in BOOLEAN}

NpmManifests == {p \in SeqsUpTo(NpmNames \X NpmVersions, MaxPkg) :
                    \A m, n \in 1..Len(p) : m # n => p[m][1] # p[n][1]}

InitNpm ==
    /\ StartOfMain
    /\ eol_data \in {Dataset([k \in {"react"} |-> e]) :
                        e \in {Absent, NoResult} \cup {Entry(L) : L \in SeqsUpTo(NpmReleases, MaxReleases)}}
    /\ pkg \in NpmManifests
    /\ pom = EmptyPom

\* ---- parent runs: the parent, the properties it reads and the dataset vary
ParentPool ==
    {NoParent,
     Parent("org.springframework.boot", "spring-boot-starter-parent", "3.2.1"),
     Parent("org.springframework.boot", "spring-boot-starter-parent", "3.4.0"),
     Parent("org.springframework.boot", "spring-boot-starter-parent", "2.7.18"),
     Parent("org.springframework.boot", "spring-boot-starter-parent", " 3.2.1"),
     Parent("org.springframework.boot", "spring-boot-starter-parent", None),
     Parent("org.springframework.boot", "spring-boot-starter-parent", Missing),
     Parent("org.springframework.boot", "Spring-Boot-Starter-Parent", "3.5.0"),
     Parent(Missing, "spring-boot-starter-parent", "3.3.2"),
     Parent("com.acme", "acme-parent", "3.2.1"),
     Parent("com.acme", None, "3.2.1")}

ParentDocs ==
    {<<>>,
     <<Dependency("org.liquibase", "liquibase-core", Missing)>>,
     <<Dependency("org.springframework", "spring-framework", "5.3.0")>>}

InitParent ==
    /\ StartOfMain
    /\ eol_data \in BackendDatasets
    /\ pkg = <<>>
    /\ pom \in {[properties |-> Properties([k \in {"spring-oxm.version", "java.version"} |->
                                               IF k = "java.version" THEN j ELSE o]),
                 parent |-> p, dependencies |-> d] :
                    o \in {Missing, " 6.0.9\n", None}, j \in {Missing, "21"},
                    p \in ParentPool, d \in ParentDocs}

\* ---- dependency runs: the <dependency> nodes and the properties they refer to vary
DepPool ==
    {Dependency("org.liquibase", "liquibase", v) :
        v \in {None, "${x}", "${x}\n", " ${x}", "${y}", "${x"}}
    \cup {Dependency("com.acme", "Lib", "1.0"),
          Dependency("org.springframework", "spring-framework", "5.3.0"),
          Dependency(Missing, "Java", "17"),
          Dependency("Org.Liquibase", "Liquibase-Core", Missing),
          Dependency(Missing, "liquibase-core", Missing),
          Dependency("org.liquibase", "lib", Missing),
          Dependency("com.acme", Missing, "1.0")}

InitDeps ==
    /\ StartOfMain
    /\ eol_data \in {Dataset([k \in BackendKeys |-> IF k \in present THEN SampleEntry(k) ELSE Absent]) :
                        present \in {BackendKeys, BackendKeys \ {"liquibase"}}}
    /\ pkg = <<>>
    /\ pom \in {[properties |-> Properties([k \in {"x", "java.version"} |->
                                               IF k = "java.version" THEN "21" ELSE x]),
                 parent |-> p, dependencies |-> d] :
                    x \in {Missing, " 1.2.3\n", None},
                    p \in {NoParent, Parent("com.acme", "Java", "1.0"),
                           Parent("org.springframework.boot", "spring-boot-starter-parent", "3.2.1")},
                    d \in SeqsUpTo(DepPool, MaxDeps)}

\* ---- list runs: one dependency, its declared version and its product's releases vary
ListUsed == {"5.0.0", "4.5", "7", " 5.0 ", "bad", "4.x", None}
ListReleases == {Rel(n, FALSE) : n \in {"6.0.0", "5.0.0", "4.0.0", "bad"}}
                    \cup {Rel("3.0.0", TRUE), [name |-> "5.0.0"]}

InitList ==
    /\ StartOfMain
    /\ eol_data \in {Dataset([k \in {"lib"} |-> Entry(L)]) : L \in SeqsUpTo(ListReleases, MaxReleases)}
    /\ pkg = <<>>
    /\ pom \in {[properties |-> EmptyDict, parent |-> NoParent,
                 dependencies |-> <<Dependency("com.acme", "lib", d)>>] : d \in ListUsed}

(***************************************************************************)
(* Specifications                                                          *)
(***************************************************************************)
Init == InitNpm \/ InitParent \/ InitDeps \/ InitList

NextMaven ==
    \/ NpmReturn \/ MavenParent \/ MavenJava \/ MavenDep \/ MavenReturn
    \/ ClassifyFrontend \/ ClassifyBackend \/ PrintFrontend \/ PrintBackend

NextNpm ==
    \/ NpmDep \/ NpmReturn \/ MavenParent \/ MavenJava \/ MavenReturn
    \/ ClassifyFrontend \/ ClassifyBackend \/ PrintFrontend \/ PrintBackend

Next == NpmDep \/ NextMaven

Spec == Init /\ [][Next]_vars
SpecNpm == InitNpm /\ [][NextNpm]_vars
SpecParent == InitParent /\ [][NextMaven]_vars
SpecDeps == InitDeps /\ [][NextMaven]_vars
SpecList == InitList /\ [][NextMaven]_vars

(***************************************************************************)
(* Positions of main                                                       *)
(***************************************************************************)
\* check_maven_versions has returned
ExtractorReturned ==
    pc \in {"classify_frontend", "classify_backend", "print_frontend", "print_backend",
            "done", "crashed_in_report"}

\* the loop over frontend_report has ended
FrontendClassified ==
    pc \in {"classify_backend", "print_frontend", "print_backend", "done", "crashed_in_report"}

\* the loop over backend_report has ended
BackendClassified == pc \in {"print_frontend", "print_backend", "done", "crashed_in_report"}

InNoBackendBucket(dep) ==
    /\ dep \notin DOMAIN backend_eol
    /\ dep \notin DOMAIN backend_up_to_date
    /\ dep \notin DOMAIN backend_unchecked

OnlyUpToDate(dep) ==
    /\ dep \in DOMAIN backend_up_to_date
    /\ dep \notin DOMAIN backend_eol
    /\ dep \notin DOMAIN backend_unchecked

OnlyEol(dep, required) ==
    /\ dep \in DOMAIN backend_eol
    /\ backend_eol[dep].required = required
    /\ dep \notin DOMAIN backend_up_to_date
    /\ dep \notin DOMAIN backend_unchecked

\* the records of backend_report that carry a non-empty supported list
ListRecords ==
    {dep \in DOMAIN backend_report :
        /\ "supported_versions" \in DOMAIN backend_report[dep]
        /\ backend_report[dep].supported_versions # <<>>}

AllParse(used, L) == Parses(used) /\ \A n \in 1..Len(L) : Parses(L[n])

MembershipDecides(dep, used, L) ==
    IF InList(used, L) THEN OnlyUpToDate(dep) ELSE OnlyEol(dep, L[1])

\* C2 as stated: any parse failure, wherever it lies, makes membership decide
C2_AnyFailureFallsBack ==
    BackendClassified =>
        \A dep \in ListRecords :
            LET used == backend_report[dep].used
                L == backend_report[dep].supported_versions
            IN  ~AllParse(used, L) => MembershipDecides(dep, used, L)

\* the scan of the list reaches an entry that does not parse: no entry before it is <= used
ScanFails(used, L) ==
    \E n \in 1..Len(L) :
        /\ ~Parses(L[n])
        /\ \A m \in 1..(n - 1) : Parses(L[m]) /\ ~VersionLeq(L[m], used)

(***************************************************************************)
(* C2 amended: membership decides when the declared version fails to       *)
(* parse or the scan of the list reaches an unparseable entry before any   *)
(* entry <= the declared version; an unparseable entry behind an entry     *)
(* <= the declared version is never parsed and the dependency is up to     *)
(* date.                                                                   *)
(***************************************************************************)
\* C2 amended: a parse failure the comparison reaches makes membership decide
C2_ReachedFailureFallsBack ==
    BackendClassified =>
        \A dep \in ListRecords :
            LET used == backend_report[dep].used
                L == backend_report[dep].supported_versions
            IN  /\ (~Parses(used) \/ ScanFails(used, L)) => MembershipDecides(dep, used, L)
                /\ (Parses(used) /\ ~AllParse(used, L) /\ ~ScanFails(used, L)) => OnlyUpToDate(dep)

\* an unparseable first entry sends 5.0.0 against [bad, 4.0.0] to end of life
C2_Witness ==
    /\ BackendClassified
    /\ "lib" \in ListRecords
    /\ backend_report["lib"].used = "5.0.0"
    /\ backend_report["lib"].supported_versions = <<"bad", "4.0.0">>
    /\ "lib" \in DOMAIN backend_eol
    /\ backend_eol["lib"].required = "bad"

(***************************************************************************)
(* C3: flat form: with one leading ^, ~ or > removed from the declared     *)
(* version, end of life (required = latest_supported) iff it parses        *)
(* strictly below latest_supported; if either side fails to parse, end of  *)
(* life iff the declared version and latest_supported differ as strings.   *)
(***************************************************************************)
WithoutMarker(d) ==
    IF Len(d) > 0 /\ SubSeq(d, 1, 1) \in {"^", "~", ">"} THEN SubSeq(d, 2, Len(d)) ELSE d

FlatIsEol(d, s) ==
    IF Parses(WithoutMarker(d)) /\ Parses(s) THEN VersionLess(WithoutMarker(d), s) ELSE d # s

IsUnchecked(name) ==
    name \in DOMAIN backend_report /\ "status" \in DOMAIN backend_report[name]

CompleteParent ==
    /\ pom.parent.present
    /\ Missing \notin {pom.parent.groupId, pom.parent.artifactId, pom.parent.version}

IsStarterParent == CompleteParent /\ lower(pom.parent.artifactId) = StarterParent

IsManagedLiquibase(dep) ==
    /\ dep.version = Missing
    /\ dep.artifactId # Missing /\ lower(dep.artifactId) = "liquibase-core"
    /\ dep.groupId # Missing /\ lower(dep.groupId) = "org.liquibase"

\* C4 as stated: an absent product always leaves an Unchecked record
C4_AbsentIsUnchecked ==
    ExtractorReturned =>
        /\ (IsStarterParent /\ ~HasReleases("spring-boot")) => IsUnchecked(StarterParent)
        /\ (IsStarterParent /\ ~HasReleases("spring-framework")) => IsUnchecked("spring-framework")
        /\ ("java.version" \in DOMAIN properties /\ ~HasReleases("java")) => IsUnchecked("java")
        /\ \A n \in 1..Len(pom.dependencies) :
              LET dep == pom.dependencies[n]
              IN  /\ (dep.artifactId # Missing /\ dep.version # Missing /\ ~HasReleases(lower(dep.artifactId)))
                        => IsUnchecked(lower(dep.artifactId))
                  /\ (IsManagedLiquibase(dep) /\ ~HasReleases("liquibase")) => IsUnchecked("liquibase")

(***************************************************************************)
(* C5 as stated: with the dataset fetched and both manifests extracted,    *)
(* the run reaches the end of the report: no error escapes the             *)
(* classification and the report.                                          *)
(***************************************************************************)
C5_NoErrorEscapes == pc # "crashed_in_report"

(***************************************************************************)
(* C6: a backend record whose supported list is empty is in none of the    *)
(* three backend buckets.                                                  *)
(***************************************************************************)
EmptyListRecords ==
    {dep \in DOMAIN backend_report :
        /\ "supported_versions" \in DOMAIN backend_report[dep]
        /\ backend_report[dep].supported_versions = <<>>}

\* C6: an empty supported list puts the dependency in no bucket
C6_EmptyListNoBucket ==
    BackendClassified => \A dep \in EmptyListRecords : InNoBackendBucket(dep)

\* a product whose releases are all end of life, the declared version parsing
C6_Witness ==
    /\ BackendClassified
    /\ "lib" \in EmptyListRecords
    /\ backend_report["lib"].used = "5.0.0"
    /\ Len(ReleasesOf("lib")) = 2

(***************************************************************************)
(* C7: right after the parent is processed, a spring-framework record      *)
(* exists only under a spring-boot-starter-parent, and its version is the  *)
(* value of the first table key that is a prefix of the parent version,    *)
(* else the trimmed property spring-oxm.version if it exists, else 6.2.5.  *)
(***************************************************************************)
FrameworkKeys == {n \in 1..Len(spring_boot_to_framework) :
                     startswith(pom.parent.version, spring_boot_to_framework[n][1])}

FirstFrameworkKey == CHOOSE n \in FrameworkKeys : \A m \in FrameworkKeys : n <= m

C7_Chain ==
    IF FrameworkKeys # {} THEN spring_boot_to_framework[FirstFrameworkKey][2]
    ELSE IF "spring-oxm.version" \in DOMAIN properties THEN strip(properties["spring-oxm.version"])
    ELSE "6.2.5"

\* C7: the spring-framework version follows table, then property, then default
C7_FrameworkFallbackChain ==
    pc = "maven_java" =>
        /\ "spring-framework" \in DOMAIN backend_report =>
              /\ IsStarterParent
              /\ backend_report["spring-framework"].used = C7_Chain
        /\ (IsStarterParent /\ HasReleases("spring-boot") /\ HasReleases("spring-framework"))
              => "spring-framework" \in DOMAIN backend_report

\* no key is a prefix of 2.7.18 and the property exists: its trimmed value is recorded
C7_Witness ==
    /\ pc = "maven_java"
    /\ pom.parent.version = "2.7.18"
    /\ "spring-oxm.version" \in DOMAIN properties
    /\ "spring-framework" \in DOMAIN backend_report
    /\ backend_report["spring-framework"].used = "6.0.9"

(***************************************************************************)
(* C8: right after a version-less org.liquibase:liquibase-core node is     *)
(* processed, the version under liquibase is the value of the first        *)
(* migration-table key that is a prefix of the parent's raw version,       *)
(* whatever the parent artifact, and 4.26.0 with no parent version or no   *)
(* such key.                                                               *)
(***************************************************************************)
RawParentVersion ==
    IF pom.parent.present /\ pom.parent.version \notin {Missing, None} THEN pom.parent.version ELSE ""

LiquibaseKeys == {n \in 1..Len(spring_boot_to_liquibase) :
                     RawParentVersion # "" /\ startswith(RawParentVersion, spring_boot_to_liquibase[n][1])}

FirstLiquibaseKey == CHOOSE n \in LiquibaseKeys : \A m \in LiquibaseKeys : n <= m

C8_Expected ==
    IF LiquibaseKeys # {} THEN spring_boot_to_liquibase[FirstLiquibaseKey][2] ELSE "4.26.0"

\* the node the last iteration of the dependency loop processed
JustProcessed == pom.dependencies[i - 1]

AfterDepStep == pc = "maven_deps" /\ i > 1

\* C8: the managed liquibase version follows the parent's raw version
C8_ManagedLiquibase ==
    (AfterDepStep /\ IsManagedLiquibase(JustProcessed) /\ HasReleases("liquibase")) =>
        /\ "liquibase" \in DOMAIN backend_report
        /\ backend_report["liquibase"].used = C8_Expected

\* a parent that is not the starter parent still selects 4.23.0 by its version 3.2.1
C8_Witness ==
    /\ AfterDepStep /\ IsManagedLiquibase(JustProcessed)
    /\ pom.parent.present /\ pom.parent.artifactId = "acme-parent"
    /\ "liquibase" \in DOMAIN backend_report
    /\ backend_report["liquibase"].used = "4.23.0"

(***************************************************************************)
(* C9 as stated: an explicit version that starts with ${ and ends with }   *)
(* is recorded as the trimmed value of the property it names, or unchanged *)
(* if there is no such property; any other version is recorded unchanged.  *)
(***************************************************************************)
IsExplicit(dep) == dep.artifactId # Missing /\ dep.version # Missing

RecordedUsed(dep) == backend_report[lower(dep.artifactId)].used

C9_StatedPlaceholder(ver) == ver # None /\ startswith(ver, "${") /\ endswith(ver, "}")

C9_StatedExpected(ver) ==
    IF C9_StatedPlaceholder(ver) /\ SubSeq(ver, 3, Len(ver) - 1) \in DOMAIN properties
    THEN strip(properties[SubSeq(ver, 3, Len(ver) - 1)])
    ELSE ver

\* C9 as stated: only a version ending with } itself is a placeholder
C9_PlaceholderEndsWithBrace ==
    (AfterDepStep /\ IsExplicit(JustProcessed)) =>
        RecordedUsed(JustProcessed) = C9_StatedExpected(JustProcessed.version)

(***************************************************************************)
(* C9 amended: a placeholder is a version that starts with ${ and, with    *)
(* its surrounding whitespace trimmed, ends with }; the name is what lies  *)
(* between them.  A recorded placeholder whose name is a property is the   *)
(* trimmed value of the property; every other version is recorded          *)
(* unchanged.                                                              *)
(***************************************************************************)
C9_TrimmedPlaceholder(ver) == ver # None /\ startswith(ver, "${") /\ endswith(rstrip(ver), "}")

C9_Name(ver) == SubSeq(rstrip(ver), 3, Len(rstrip(ver)) - 1)

C9_Expected(ver) ==
    IF C9_TrimmedPlaceholder(ver) /\ C9_Name(ver) \in DOMAIN properties
    THEN strip(properties[C9_Name(ver)])
    ELSE ver

\* C9 amended: whitespace after the closing } does not stop the resolution
C9_PlaceholderResolution ==
    (AfterDepStep /\ IsExplicit(JustProcessed)) =>
        RecordedUsed(JustProcessed) = C9_Expected(JustProcessed.version)

\* ${x} followed by a newline, x = " 1.2.3\n": 1.2.3 is recorded
C9_Witness ==
    /\ AfterDepStep /\ IsExplicit(JustProcessed)
    /\ JustProcessed.version = "${x}\n"
    /\ "x" \in DOMAIN properties /\ properties["x"] = " 1.2.3\n"
    /\ RecordedUsed(JustProcessed) = "1.2.3"

(***************************************************************************)
(* C10: the extractor's output holds one record per lowercase name, the    *)
(* one written by the last source that produced the name, in the order     *)
(* parent, web framework, language version, dependency nodes in document   *)
(* order; so every name is in at most one backend bucket.                  *)
(***************************************************************************)
\* the name node n writes a record under, "" if it writes none
WrittenBy(n) ==
    LET dep == pom.dependencies[n]
    IN  IF IsExplicit(dep) THEN lower(dep.artifactId)
        ELSE IF IsManagedLiquibase(dep) /\ HasReleases("liquibase") THEN "liquibase"
        ELSE ""

\* what node n records as the used version
UsedBy(n) ==
    IF IsExplicit(pom.dependencies[n]) THEN C9_Expected(pom.dependencies[n].version) ELSE C8_Expected

NoNodeWrites(name) == \A n \in 1..Len(pom.dependencies) : WrittenBy(n) # name

\* the names the parent, the web framework and the language version are recorded under
DerivedNames ==
    (IF CompleteParent THEN {lower(pom.parent.artifactId)} ELSE {})
    \cup (IF IsStarterParent /\ HasReleases("spring-boot") /\ HasReleases("spring-framework")
          THEN {"spring-framework"} ELSE {})
    \cup (IF "java.version" \in DOMAIN properties /\ HasReleases("java") THEN {"java"} ELSE {})

\* what the last of parent, web framework and language version records under name
DerivedUsed(name) ==
    IF name = "java" /\ "java.version" \in DOMAIN properties /\ HasReleases("java")
    THEN properties["java.version"]
    ELSE IF name = "spring-framework" /\ IsStarterParent /\ HasReleases("spring-boot")
            /\ HasReleases("spring-framework")
    THEN C7_Chain
    ELSE pom.parent.version

\* the extractor's output, read where check_maven_versions returns it
C10_OutputIsLastWrites ==
    /\ DOMAIN backend_report =
          DerivedNames \cup ({WrittenBy(n) : n \in 1..Len(pom.dependencies)} \ {""})
    /\ \A name \in DOMAIN backend_report : lower(name) = name
    /\ \A n \in 1..Len(pom.dependencies) :
          (WrittenBy(n) # "" /\ \A m \in (n + 1)..Len(pom.dependencies) : WrittenBy(m) # WrittenBy(n))
              => backend_report[WrittenBy(n)].used = UsedBy(n)
    /\ \A name \in DerivedNames :
          NoNodeWrites(name) => backend_report[name].used = DerivedUsed(name)

\* C10: one record per lowercase name, the last written, and one bucket per name
C10_LastWriteWins ==
    /\ pc = "classify_frontend" => C10_OutputIsLastWrites
    /\ BackendClassified =>
          /\ DOMAIN backend_eol \cap DOMAIN backend_up_to_date = {}
          /\ DOMAIN backend_eol \cap DOMAIN backend_unchecked = {}
          /\ DOMAIN backend_up_to_date \cap DOMAIN backend_unchecked = {}

\* of two nodes recorded under liquibase the later is kept, and a Java node replaces
\* the record of java.version
C10_Witness ==
    /\ BackendClassified
    /\ Len(pom.dependencies) = 2
    /\ WrittenBy(1) = "liquibase" /\ WrittenBy(2) = "liquibase"
    /\ UsedBy(1) # UsedBy(2)
    /\ backend_report["liquibase"].used = UsedBy(2)
    /\ "liquibase" \in DOMAIN backend_eol \cup DOMAIN backend_up_to_date \cup DOMAIN backend_unchecked
====
